---- MODULE Spec2Model ----
(***************************************************************************)
(* GraphBuilder (src/graph_builder.py): the dependency graph of a Python   *)
(* project and the blast-radius query over it.                             *)
(*                                                                         *)
(* A project is a sequence of source files in the order rglob yields them. *)
(* A source file is a sequence of conventionally formatted lines; its text *)
(* is the rendering of those lines.  The syntax-tree parser is modelled on *)
(* the line structure (indentation gives the nesting tree-sitter reports), *)
(* the fallback parser on the rendered text of each line.                  *)
(*                                                                         *)
(* The graph is a networkx DiGraph: a node list in insertion order and at  *)
(* most one edge per ordered pair, whose `relation` attribute add_edge     *)
(* overwrites.  Node attributes (type, file) are never read by the program *)
(* and are left out.                                                       *)
(***************************************************************************)
EXTENDS Integers, Sequences, FiniteSets, TLC

VARIABLES
    project,   \* the files under project_root, in rglob order
    self,      \* the GraphBuilder object: its attributes as a record
    pc,        \* position of build(): parse, imports, calls, inst, refs, done
    cursor,    \* index of the file or dict key the current loop is at
    pending,   \* items of the current key's set not yet iterated
    result,    \* what the last query call returned since build() returned
    previous,  \* the project and the builder as the build before this one left them
    builds,    \* the number of build() calls begun
    server,    \* the globals _graph, _rules, _tests of mcp_server.py
    reply      \* what the MCP tool called last returned

vars == <<project, self, pc, cursor, pending, result, previous, builds, server, reply>>

-----------------------------------------------------------------------------
(* Bounds *)

\* Largest number of files in a project.
MaxFiles == 2

-----------------------------------------------------------------------------
(* Python str operations *)

Ch(s, i) == SubSeq(s, i, i)

\* needle in hay
Contains(hay, needle) ==
    \E i \in 1..(Len(hay) - Len(needle) + 1) :
        SubSeq(hay, i, i + Len(needle) - 1) = needle

StartsWith(s, p) == Len(p) <= Len(s) /\ SubSeq(s, 1, Len(p)) = p

EndsWith(s, p) == Len(p) <= Len(s) /\ SubSeq(s, Len(s) - Len(p) + 1, Len(s)) = p

UpperChars == {"A", "B", "C", "D", "E", "F", "G", "H", "I", "J", "K", "L", "M",
               "N", "O", "P", "Q", "R", "S", "T", "U", "V", "W", "X", "Y", "Z"}

LowerOf == [c \in UpperChars |->
    CASE c = "A" -> "a" [] c = "B" -> "b" [] c = "C" -> "c" [] c = "D" -> "d"
      [] c = "E" -> "e" [] c = "F" -> "f" [] c = "G" -> "g" [] c = "H" -> "h"
      [] c = "I" -> "i" [] c = "J" -> "j" [] c = "K" -> "k" [] c = "L" -> "l"
      [] c = "M" -> "m" [] c = "N" -> "n" [] c = "O" -> "o" [] c = "P" -> "p"
      [] c = "Q" -> "q" [] c = "R" -> "r" [] c = "S" -> "s" [] c = "T" -> "t"
      [] c = "U" -> "u" [] c = "V" -> "v" [] c = "W" -> "w" [] c = "X" -> "x"
      [] c = "Y" -> "y" [] c = "Z" -> "z"]

\* base_name[0].isupper()
IsUpper(c) == c \in UpperChars

RECURSIVE Lower(_)
\* s.lower()
Lower(s) ==
    IF Len(s) = 0 THEN ""
    ELSE (IF IsUpper(Ch(s, 1)) THEN LowerOf[Ch(s, 1)] ELSE Ch(s, 1))
         \o Lower(SubSeq(s, 2, Len(s)))

\* positions of "." in s
DotsOf(s) == {i \in 1..Len(s) : Ch(s, i) = "."}

Max(S) == CHOOSE x \in S : \A y \in S : y <= x

\* len(s.split("."))
NumParts(s) == Cardinality(DotsOf(s)) + 1

\* s.split(".")[-1]
LastPart(s) ==
    IF DotsOf(s) = {} THEN s ELSE SubSeq(s, Max(DotsOf(s)) + 1, Len(s))

RECURSIVE DotsToSlashes(_)
\* s.replace(".", "/")
DotsToSlashes(s) ==
    IF Len(s) = 0 THEN ""
    ELSE (IF Ch(s, 1) = "." THEN "/" ELSE Ch(s, 1))
         \o DotsToSlashes(SubSeq(s, 2, Len(s)))

\* module.replace(".", "/") + ".py"
PotentialFile(module) == DotsToSlashes(module) \o ".py"

WordChars == UpperChars \cup {LowerOf[c] : c \in UpperChars} \cup
             {"_", "0", "1", "2", "3", "4", "5", "6", "7", "8", "9"}

\* the longest run of \w characters of s from position i (the group (\w+))
WordAt(s, i) ==
    LET stops == {j \in i..Len(s) : Ch(s, j) \notin WordChars}
        last  == IF stops = {} THEN Len(s)
                 ELSE (CHOOSE j \in stops : \A k \in stops : j <= k) - 1
    IN  SubSeq(s, i, last)

\* the longest run of non-space characters of s from position i (the group (\S+))
NonSpaceAt(s, i) ==
    LET stops == {j \in i..Len(s) : Ch(s, j) = " "}
        last  == IF stops = {} THEN Len(s)
                 ELSE (CHOOSE j \in stops : \A k \in stops : j <= k) - 1
    IN  SubSeq(s, i, last)

-----------------------------------------------------------------------------
(* dict and DiGraph operations *)

\* d[k] = v keeping the value a key already has.
PutKeepingFirst(d, k, v) ==
    [x \in DOMAIN d \cup {k} |-> IF x \in DOMAIN d THEN d[x] ELSE v]

\* d[k] = v
Put(d, k, v) == [x \in DOMAIN d \cup {k} |-> IF x = k THEN v ELSE d[x]]

\* key order of a dict after d[k] = v
KeyPut(keys, k) ==
    IF \E i \in 1..Len(keys) : keys[i] = k THEN keys ELSE Append(keys, k)

Range(seq) == {seq[i] : i \in 1..Len(seq)}

\* the empty dict
EmptyDict == [x \in {} |-> x]

\* nx.DiGraph()
EmptyGraph == [nodes |-> <<>>, rel |-> EmptyDict]

\* graph.add_node(n): a node that is already there keeps its place
AddNode(g, n) == [g EXCEPT !.nodes = KeyPut(g.nodes, n)]

\* graph.has_edge(u, v)
HasEdge(g, u, v) == <<u, v>> \in DOMAIN g.rel

\* graph.add_edge(u, v, relation=r): adds missing end points, then sets the
\* relation attribute of the one edge from u to v
AddEdge(g, u, v, r) ==
    [nodes |-> KeyPut(KeyPut(g.nodes, u), v), rel |-> Put(g.rel, <<u, v>>, r)]

\* if not graph.has_edge(u, v): graph.add_edge(u, v, relation=r)
AddEdgeIfAbsent(g, u, v, r) == IF HasEdge(g, u, v) THEN g ELSE AddEdge(g, u, v, r)

\* graph.successors(n), graph.predecessors(n)
Successors(g, n) == {v \in Range(g.nodes) : <<n, v>> \in DOMAIN g.rel}
Predecessors(g, n) == {u \in Range(g.nodes) : <<u, n>> \in DOMAIN g.rel}

-----------------------------------------------------------------------------
(* Source files *)

Line(k, ind, name, arg) == [k |-> k, ind |-> ind, name |-> name, arg |-> arg]
FromImport(module, name) == Line("from", 0, module, name)
Import(module) == Line("import", 0, module, "")
Class(name) == Line("class", 0, name, "")
Def(ind, name) == Line("def", ind, name, "")
Call(ind, callee) == Line("call", ind, callee, "")
Pass(ind) == Line("pass", ind, "", "")

\* a file whose bytes read_text() cannot decode
Undecodable == << Line("undecodable", 0, "", "") >>

\* filepath.read_text() returns, rather than raises
Readable(file) == file.lines # Undecodable

RECURSIVE Indent(_)
Indent(n) == IF n = 0 THEN "" ELSE "    " \o Indent(n - 1)

\* the text of one line
Render(ln) ==
    CASE ln.k = "from"   -> "from " \o ln.name \o " import " \o ln.arg
      [] ln.k = "import" -> "import " \o ln.name
      [] ln.k = "class"  -> "class " \o ln.name \o ":"
      [] ln.k = "def"    -> Indent(ln.ind) \o "def " \o ln.name \o
                            (IF ln.ind = 0 THEN "():" ELSE "(self):")
      [] ln.k = "call"   -> Indent(ln.ind) \o ln.name \o "()"
      [] OTHER           -> Indent(ln.ind) \o "pass"

RECURSIVE JoinLines(_, _, _)
\* "\n".join(lines[i:j+1]) of the rendered lines (1-based, inclusive)
JoinLines(lines, i, j) ==
    IF i > j THEN ""
    ELSE Render(lines[i]) \o (IF i < j THEN "\n" ELSE "") \o JoinLines(lines, i + 1, j)

\* filepath.read_text()
ReadText(file) == JoinLines(file.lines, 1, Len(file.lines))

\* The contents a file of the project may have.
Units == {
    \* a method calling an imported function
    << FromImport("b", "h"), Class("K"), Def(1, "run"), Call(2, "h") >>,
    << Def(0, "h"), Pass(1) >>,
    \* a function constructing a class it does not import
    << Def(0, "g"), Call(1, "K") >>,
    \* a function constructing a class of the file it imports
    << FromImport("a", "K"), Def(0, "g"), Call(1, "K") >>,
    \* a chain of calls in one file
    << Class("K"), Def(1, "run"), Call(2, "h"),
       Def(0, "h"), Call(1, "w"), Def(0, "w"), Pass(1) >>,
    \* a class with a lifecycle method, constructed in its own file
    << Class("K"), Def(1, "run"), Pass(2), Def(0, "g"), Call(1, "K") >>,
    \* dotted calls
    << Def(0, "h"), Pass(1), Def(0, "gw"), Call(1, "a.h"), Call(1, "x.y.h") >>,
    \* a call through an imported module
    << Import("b"), Import("x.y"), Def(0, "g"), Call(1, "b.h") >>,
    \* a function shadowed by a class of its name, which it constructs
    << Def(0, "K"), Call(1, "x.y.K"), Class("K"), Def(1, "run"), Pass(2) >>,
    \* a function calling itself
    << Def(0, "f"), Call(1, "f") >>,
    \* a file that cannot be read
    Undecodable }

Paths == << "a.py", "b.py", "c.py" >>

Projects ==
    UNION { { [i \in 1..n |-> [path |-> Paths[i], lines |-> u[i]]] :
              u \in [1..n -> Units] } : n \in 1..MaxFiles }

-----------------------------------------------------------------------------
(* GraphBuilder.__init__ *)

NewBuilder(which) ==
    [ parser              |-> which,
      graph               |-> EmptyGraph,
      symbol_locations    |-> EmptyDict,
      file_symbols        |-> EmptyDict,
      fileKeys            |-> <<>>,
      imports             |-> EmptyDict,
      symbol_calls        |-> EmptyDict,
      symbol_instantiates |-> EmptyDict,
      callKeys            |-> <<>> ]

-----------------------------------------------------------------------------
(* _parse_with_tree_sitter *)

Min(S) == CHOOSE x \in S : \A y \in S : x <= y

\* node.end_point[0] of the definition whose header is line i: the last line
\* of its indented body
BlockEnd(lines, i) ==
    LET stops == {j \in (i + 1)..Len(lines) : lines[j].ind <= lines[i].ind}
    IN  IF stops = {} THEN Len(lines) ELSE Min(stops) - 1

\* parent_class when visit reaches line i: the innermost class_definition
\* whose body holds the line, "" for None
ParentClass(lines, i) ==
    LET encl == {j \in 1..(i - 1) : lines[j].k = "class" /\ BlockEnd(lines, j) >= i}
    IN  IF encl = {} THEN "" ELSE lines[Max(encl)].name

\* calls of extract_calls_and_instantiations: the callee text of every call
\* under the function_definition node
CallsOf(lines, i) ==
    {lines[j].name : j \in {x \in (i + 1)..BlockEnd(lines, i) : lines[x].k = "call"}}

\* instantiates of extract_calls_and_instantiations
InstantiatesOf(lines, i) ==
    {c \in CallsOf(lines, i) :
        LastPart(c) # "" /\ IsUpper(Ch(LastPart(c), 1))}

\* visit, class_definition branch
VisitClass(b, rel_path, lines, i) ==
    LET class_name == lines[i].name
        info == [ file     |-> rel_path,
                  line     |-> i,
                  end_line |-> BlockEnd(lines, i),
                  code     |-> JoinLines(lines, i, BlockEnd(lines, i)),
                  type     |-> "class" ]
    IN  [b EXCEPT
            !.symbol_locations = Put(@, class_name, info),
            !.file_symbols[rel_path] = Append(@, class_name),
            !.graph = AddNode(@, class_name)]

\* the contains edge of the function_definition branch
ContainsEdge(g, parent_class, full_name) ==
    IF parent_class # "" THEN AddEdge(g, parent_class, full_name, "contains") ELSE g

\* visit, function_definition branch
VisitFunction(b, rel_path, lines, i) ==
    LET parent_class == ParentClass(lines, i)
        func_name == lines[i].name
        full_name == IF parent_class # "" THEN parent_class \o "." \o func_name
                     ELSE func_name
        info == [ file     |-> rel_path,
                  line     |-> i,
                  end_line |-> BlockEnd(lines, i),
                  code     |-> JoinLines(lines, i, BlockEnd(lines, i)),
                  type     |-> IF parent_class # "" THEN "method" ELSE "function" ]
    IN  [b EXCEPT
            !.symbol_locations = Put(@, full_name, info),
            !.file_symbols[rel_path] = Append(@, full_name),
            !.graph = ContainsEdge(AddNode(@, full_name), parent_class, full_name),
            !.symbol_calls = Put(@, full_name, CallsOf(lines, i)),
            !.symbol_instantiates = Put(@, full_name, InstantiatesOf(lines, i)),
            !.callKeys = KeyPut(@, full_name)]

\* visit, the two import branches
VisitImport(b, rel_path, ln) ==
    IF ln.k = "from"
    THEN [b EXCEPT !.imports[rel_path] =
             @ \cup {PotentialFile(ln.name), "import:" \o ln.name \o "." \o ln.arg}]
    ELSE [b EXCEPT !.imports[rel_path] = @ \cup {PotentialFile(ln.name)}]

RECURSIVE ParseWithTreeSitter(_, _, _, _)
\* visit(root): the nodes of the file in document order, from line i on
ParseWithTreeSitter(b, rel_path, lines, i) ==
    IF i > Len(lines) THEN b
    ELSE LET ln == lines[i]
             nb == CASE ln.k = "class"             -> VisitClass(b, rel_path, lines, i)
                     [] ln.k = "def"               -> VisitFunction(b, rel_path, lines, i)
                     [] ln.k \in {"from", "import"} -> VisitImport(b, rel_path, ln)
                     [] OTHER                      -> b
         IN  ParseWithTreeSitter(nb, rel_path, lines, i + 1)

-----------------------------------------------------------------------------
(* _parse_with_regex *)

\* the first position from i on that holds no space
SkipSpaces(t, i) ==
    LET rest == {j \in i..Len(t) : Ch(t, j) # " "}
    IN  IF rest = {} THEN Len(t) + 1 ELSE Min(rest)

\* group 1 of ^<keyword>\s+(\w+) matched from position i, "" for no match
KeywordWord(t, i, keyword) ==
    LET j == SkipSpaces(t, i + Len(keyword))
    IN  IF SubSeq(t, i, i + Len(keyword) - 1) = keyword /\ j > i + Len(keyword)
        THEN WordAt(t, j) ELSE ""

\* class_pattern.match(line): group 1, "" for no match
ClassMatch(t) == KeywordWord(t, 1, "class")

\* func_pattern.match(line): group 1, "" for no match
FuncMatch(t) ==
    IF StartsWith(t, "    ") /\ KeywordWord(t, 5, "def") # ""
    THEN KeywordWord(t, 5, "def") ELSE KeywordWord(t, 1, "def")

\* group 1 of ^<keyword>\s+(\S+) matched from position i, "" for no match
KeywordToken(t, i, keyword) ==
    LET j == SkipSpaces(t, i + Len(keyword))
    IN  IF SubSeq(t, i, i + Len(keyword) - 1) = keyword /\ j > i + Len(keyword)
        THEN NonSpaceAt(t, j) ELSE ""

\* import_pattern.match(line): group(1) or group(2), "" for no match
ImportMatch(t) ==
    LET from_mod == KeywordToken(t, 1, "from")
        after    == SkipSpaces(t, SkipSpaces(t, 5) + Len(from_mod))
    IN  IF from_mod # "" /\ after > SkipSpaces(t, 5) + Len(from_mod)
           /\ KeywordToken(t, after, "import") # ""
        THEN from_mod
        ELSE KeywordToken(t, 1, "import")

\* the class branch of the line loop
RegexClass(b, rel_path, t, i) ==
    LET current_class == ClassMatch(t)
        info == [file |-> rel_path, line |-> i, code |-> t, type |-> "class"]
    IN  IF current_class = "" THEN b
        ELSE [b EXCEPT
                !.symbol_locations = Put(@, current_class, info),
                !.file_symbols[rel_path] = Append(@, current_class),
                !.graph = AddNode(@, current_class)]

\* full_name of the function branch, given current_class before it
RegexFullName(t, current_class) ==
    IF StartsWith(t, "    ") /\ current_class # ""
    THEN current_class \o "." \o FuncMatch(t) ELSE FuncMatch(t)

\* the function branch of the line loop
RegexFunction(b, rel_path, t, i, current_class) ==
    LET full_name == RegexFullName(t, current_class)
        info == [ file |-> rel_path, line |-> i, code |-> t,
                  type |-> IF Contains(full_name, ".") THEN "method" ELSE "function" ]
    IN  IF FuncMatch(t) = "" THEN b
        ELSE [b EXCEPT
                !.symbol_locations = Put(@, full_name, info),
                !.file_symbols[rel_path] = Append(@, full_name),
                !.graph = AddNode(@, full_name)]

\* the import branch of the line loop
RegexImport(b, rel_path, t) ==
    IF ImportMatch(t) = "" THEN b
    ELSE [b EXCEPT !.imports[rel_path] = @ \cup {PotentialFile(ImportMatch(t))}]

\* current_class after the line
RegexCurrentClass(t, current_class) ==
    LET c1 == IF ClassMatch(t) # "" THEN ClassMatch(t) ELSE current_class
    IN  IF FuncMatch(t) # "" /\ ~(StartsWith(t, "    ") /\ c1 # "") THEN "" ELSE c1

RECURSIVE ParseWithRegex(_, _, _, _, _)
\* for i, line in enumerate(lines), from line i on
ParseWithRegex(b, rel_path, lines, i, current_class) ==
    IF i > Len(lines) THEN b
    ELSE LET t  == Render(lines[i])
             c1 == IF ClassMatch(t) # "" THEN ClassMatch(t) ELSE current_class
             b1 == RegexClass(b, rel_path, t, i)
             b2 == RegexFunction(b1, rel_path, t, i, c1)
             b3 == RegexImport(b2, rel_path, t)
         IN  ParseWithRegex(b3, rel_path, lines, i + 1,
                            RegexCurrentClass(t, current_class))

-----------------------------------------------------------------------------
(* _parse_file *)

\* _parse_file keeping the file's list and import set of an earlier build.
ParseFileIntoKeepingIndex(b, file) ==
    LET rel_path == file.path
        b0 == IF rel_path \in DOMAIN b.file_symbols THEN b
              ELSE [b EXCEPT
                      !.file_symbols = Put(@, rel_path, <<>>),
                      !.imports = Put(@, rel_path, {}),
                      !.fileKeys = KeyPut(@, rel_path)]
    IN  IF b.parser = "tree_sitter"
        THEN ParseWithTreeSitter(b0, rel_path, file.lines, 1)
        ELSE ParseWithRegex(b0, rel_path, file.lines, 1, "")

ParseFileInto(b, file) ==
    LET rel_path == file.path
        b0 == [b EXCEPT
                 !.file_symbols = Put(@, rel_path, <<>>),
                 !.imports = Put(@, rel_path, {}),
                 !.fileKeys = KeyPut(@, rel_path)]
    IN  IF b.parser = "tree_sitter"
        THEN ParseWithTreeSitter(b0, rel_path, file.lines, 1)
        ELSE ParseWithRegex(b0, rel_path, file.lines, 1, "")

\* _parse_file recording the file before it reads it.
ParseFileOrEmptyEntry(b, file) ==
    IF Readable(file) THEN ParseFileInto(b, file)
    ELSE [b EXCEPT
            !.file_symbols = Put(@, file.path, <<>>),
            !.imports = Put(@, file.path, {}),
            !.fileKeys = KeyPut(@, file.path)]

\* _parse_file: a file that cannot be read is passed over
ParseFileOrSkip(b, file) ==
    IF Readable(file) THEN ParseFileInto(b, file) ELSE b

RECURSIVE ParseAll(_, _, _)
\* the file loop of build: _parse_file for the files of proj from the i-th on
ParseAll(b, proj, i) ==
    IF i > Len(proj) THEN b
    ELSE ParseAll(ParseFileOrSkip(b, proj[i]), proj, i + 1)

-----------------------------------------------------------------------------
(* _resolve_dependencies *)

\* add_edge(u, v, relation=r) for every <<u, v>> of pairs; every end point
\* is a node already
AddEdges(g, pairs, r) ==
    [g EXCEPT !.rel = [p \in DOMAIN g.rel \cup pairs |->
                          IF p \in pairs THEN r ELSE g.rel[p]]]

\* the guarded add_edge for every <<u, v>> of pairs; every end point is a
\* node already
AddEdgesIfAbsent(g, pairs, r) ==
    [g EXCEPT !.rel = [p \in DOMAIN g.rel \cup pairs |->
                          IF p \in DOMAIN g.rel THEN g.rel[p] ELSE r]]

\* The cross product taken from the importing file itself.
UsesEdgesFromFile(g, b, file, imp_file) ==
    AddEdgesIfAbsent(g, {file} \X Range(b.file_symbols[imp_file]), "uses")

\* the uses edges of one resolved import: every symbol of file to every
\* symbol of imp_file
UsesEdges(g, b, file, imp_file) ==
    AddEdgesIfAbsent(g, Range(b.file_symbols[file]) \X Range(b.file_symbols[imp_file]),
                     "uses")

\* The import loop adding the file edge for a target that is no parsed file.
ResolveImportOfAnyTarget(b, file, imp_file) ==
    IF StartsWith(imp_file, "import:") THEN b
    ELSE IF imp_file \in DOMAIN b.file_symbols
         THEN [b EXCEPT !.graph =
                  UsesEdges(AddEdge(@, file, imp_file, "imports"), b, file, imp_file)]
         ELSE [b EXCEPT !.graph = AddEdge(@, file, imp_file, "imports")]

\* the body of the import loop for one imp_file of one file
ResolveImportOf(b, file, imp_file) ==
    IF StartsWith(imp_file, "import:") THEN b
    ELSE IF imp_file \in DOMAIN b.file_symbols
         THEN [b EXCEPT !.graph =
                  UsesEdges(AddEdge(@, file, imp_file, "imports"), b, file, imp_file)]
         ELSE b

\* Rule 1 without the look-up in the symbol table.
DirectMatchUnresolved(g, b, caller, call) == AddEdge(g, caller, call, "calls")

\* rule 1, direct match
DirectMatch(g, b, caller, call) ==
    IF call \in DOMAIN b.symbol_locations
    THEN AddEdge(g, caller, call, "calls") ELSE g

\* rule 2, the Class.method pattern
TwoPartMatch(g, b, caller, call) ==
    IF NumParts(call) = 2
    THEN AddEdgesIfAbsent(g,
            {<<caller, sym>> : sym \in
                {x \in DOMAIN b.symbol_locations :
                    EndsWith(x, "." \o LastPart(call)) \/ x = LastPart(call)}},
            "calls")
    ELSE g

\* rule 3, base name match
BaseNameMatch(g, b, caller, call) ==
    AddEdgesIfAbsent(g,
        {<<caller, sym>> : sym \in
            {x \in DOMAIN b.symbol_locations :
                LastPart(x) = LastPart(call) /\ x # caller}},
        "may_call")

\* the body of the call loop for one call of one caller
ResolveCallOf(b, caller, call) ==
    [b EXCEPT !.graph =
        BaseNameMatch(TwoPartMatch(DirectMatch(@, b, caller, call), b, caller, call),
                      b, caller, call)]

ImportantMethods ==
    {"__init__", "__call__", "get_route_handler", "handle", "run", "execute", "process"}

\* the class symbols whose base name is class_name
ClassesNamed(b, class_name) ==
    {sym \in DOMAIN b.symbol_locations :
        /\ b.symbol_locations[sym].type = "class"
        /\ (IF Contains(sym, ".") THEN LastPart(sym) ELSE sym) = class_name}

\* the instantiates edges of one candidate
InstantiatesEdges(g, b, caller, class_call) ==
    AddEdgesIfAbsent(g,
        {<<caller, sym>> : sym \in ClassesNamed(b, LastPart(class_call))},
        "instantiates")

\* the instantiates_uses edges of one candidate
InstantiatesUsesEdges(g, b, caller, class_call) ==
    AddEdgesIfAbsent(g,
        {<<caller, method>> : method \in
            {sym \o "." \o m : sym \in ClassesNamed(b, LastPart(class_call)),
                               m \in ImportantMethods}
            \cap DOMAIN b.symbol_locations},
        "instantiates_uses")

\* the body of the instantiation loop for one class_call of one caller; a
\* class name holds no dot, so the edges to classes and the edges to methods
\* are different pairs and their guards do not interact
ResolveInstantiationOf(b, caller, class_call) ==
    [b EXCEPT !.graph =
        InstantiatesUsesEdges(InstantiatesEdges(@, b, caller, class_call),
                              b, caller, class_call)]

\* the paths under project_root
PathsOf(proj) == {proj[i].path : i \in 1..Len(proj)}

\* (self.project_root / file).read_text() returns: the path is under
\* project_root and the file can be decoded
CanRead(proj, file) == \E i \in 1..Len(proj) : proj[i].path = file /\ Readable(proj[i])

\* (self.project_root / file).read_text()
FileText(proj, file) ==
    ReadText(proj[CHOOSE i \in 1..Len(proj) : proj[i].path = file])

\* the pairs the reference sweep joins
ReferencePairs(b, proj) ==
    UNION { UNION { {<<other_symbol, symbol>> :
                        other_symbol \in Range(b.file_symbols[file]) \ {symbol}} :
                    file \in {f \in DOMAIN b.file_symbols :
                                /\ f # b.symbol_locations[symbol].file
                                /\ CanRead(proj, f)
                                /\ Contains(FileText(proj, f), LastPart(symbol))} } :
            symbol \in DOMAIN b.symbol_locations }

\* The reference sweep adding only the edges that are missing.
SweepReferencesIfAbsent(b, proj) ==
    [b EXCEPT !.graph = AddEdgesIfAbsent(@, ReferencePairs(b, proj), "references")]

\* the reference sweep
SweepReferences(b, proj) ==
    [b EXCEPT !.graph = AddEdges(@, ReferencePairs(b, proj), "references")]

-----------------------------------------------------------------------------
(* query_blast_radius *)

SuggestionLimit == 5

\* matches: the nodes whose lower-cased name holds the lower-cased query,
\* in node order
PartialMatches(g, symbol) ==
    SelectSeq(g.nodes, LAMBDA s : Contains(Lower(s), Lower(symbol)))

\* Suggestions without the cut to five.
SuggestionsUncut(g) == g.nodes

\* list(self.graph.nodes())[:5]
Suggestions(g) ==
    SubSeq(g.nodes, 1, IF Len(g.nodes) < SuggestionLimit THEN Len(g.nodes)
                       ELSE SuggestionLimit)

\* ResolveSymbol without the exact-match test.
ResolveSymbolFirstMatch(g, symbol) == PartialMatches(g, symbol)[1]

\* the symbol the query goes on with, given that one is found
ResolveSymbol(g, symbol) ==
    IF symbol \in Range(g.nodes) THEN symbol ELSE PartialMatches(g, symbol)[1]

\* Dependents with one more level of predecessors.
DependentsThreeHops(g, symbol) ==
    UNION { {pred} \cup Predecessors(g, pred)
                \cup UNION {Predecessors(g, p2) : p2 \in Predecessors(g, pred)} :
            pred \in Predecessors(g, symbol) }

\* dependents: every predecessor and the predecessors of each
Dependents(g, symbol) ==
    UNION { {pred} \cup Predecessors(g, pred) : pred \in Predecessors(g, symbol) }

\* what one turn of the successor loop adds to dependencies
DependenciesVia(g, symbol, succ) ==
    (IF g.rel[<<symbol, succ>>] = "instantiates_uses" THEN {} ELSE {succ})
    \cup Successors(g, succ)

\* InstantiatedVia without the test for the contains relation.
InstantiatedViaAnyRelation(g, symbol, succ) ==
    CASE g.rel[<<symbol, succ>>] = "instantiates_uses" -> {succ}
      [] g.rel[<<symbol, succ>>] = "instantiates" -> Successors(g, succ)
      [] OTHER -> {}

\* what one turn of the successor loop adds to instantiated_methods
InstantiatedVia(g, symbol, succ) ==
    CASE g.rel[<<symbol, succ>>] = "instantiates_uses" -> {succ}
      [] g.rel[<<symbol, succ>>] = "instantiates" ->
            {method_succ \in Successors(g, succ) :
                g.rel[<<succ, method_succ>>] = "contains"}
      [] OTHER -> {}

Dependencies(g, symbol) ==
    UNION { DependenciesVia(g, symbol, succ) : succ \in Successors(g, symbol) }

InstantiatedMethods(g, symbol) ==
    UNION { InstantiatedVia(g, symbol, succ) : succ \in Successors(g, symbol) }

\* affected_files taking a file node for a file of its own.
AffectedFilesWithFileNodes(b, symbols) ==
    {b.symbol_locations[s].file : s \in symbols \cap DOMAIN b.symbol_locations}
        \cup (symbols \cap DOMAIN b.file_symbols)

AffectedFiles(b, symbols) ==
    {b.symbol_locations[s].file : s \in symbols \cap DOMAIN b.symbol_locations}

\* blast_radius_size counting every node once.
BlastRadiusSizeDistinct(dependents, dependencies, instantiated_methods) ==
    Cardinality(dependents \cup dependencies \cup instantiated_methods)

BlastRadiusSize(dependents, dependencies, instantiated_methods) ==
    Cardinality(dependents) + Cardinality(dependencies)
        + Cardinality(instantiated_methods)

\* the result for a resolved symbol; the lists are in no stated order and are
\* kept as sets
BlastRadius(b, query, symbol) ==
    LET dependents == Dependents(b.graph, symbol)
        dependencies == Dependencies(b.graph, symbol)
        instantiated_methods == InstantiatedMethods(b.graph, symbol)
    IN  [ kind                 |-> "result",
          query                |-> query,
          symbol               |-> symbol,
          symbol_info          |-> IF symbol \in DOMAIN b.symbol_locations
                                   THEN b.symbol_locations[symbol] ELSE EmptyDict,
          dependents           |-> dependents,
          dependencies         |-> dependencies,
          instantiated_methods |-> instantiated_methods,
          affected_files       |->
              AffectedFiles(b, dependents \cup dependencies
                                   \cup instantiated_methods \cup {symbol}),
          blast_radius_size    |->
              BlastRadiusSize(dependents, dependencies, instantiated_methods) ]

\* whether the query ends in the not-found error
NotFound(g, symbol) ==
    symbol \notin Range(g.nodes) /\ PartialMatches(g, symbol) = <<>>

QueryResult(b, symbol) ==
    IF NotFound(b.graph, symbol)
    THEN [kind |-> "error", query |-> symbol, suggestions |-> Suggestions(b.graph)]
    ELSE BlastRadius(b, symbol, ResolveSymbol(b.graph, symbol))

\* get_symbol_code: the code of the symbol table's record, None for a name
\* the symbol table does not hold
GetSymbolCodeOf(b, symbol) ==
    IF symbol \in DOMAIN b.symbol_locations
    THEN [kind |-> "code", query |-> symbol, code |-> b.symbol_locations[symbol].code]
    ELSE [kind |-> "code", query |-> symbol, code |-> "None"]

\* The names queried.
QueryNames ==
    {"K", "K.run", "g", "h", "w", "f", "b.py", "k", "RUN", "py", ".", "zz", ""}

-----------------------------------------------------------------------------
(* build, step by step, and the queries after it *)

NoResult == [kind |-> "none"]

\* before the first build() has returned there is no earlier build
NoBuild == [builds |-> 0]

\* the globals of mcp_server.py as the module sets them: all None
NoServer == [graph |-> "None", rules |-> "None", tests |-> "None"]

\* no tool has been called
NoReply == [tool |-> "none", error |-> "none"]

Init ==
    /\ project \in Projects
    /\ self \in {NewBuilder(which) : which \in {"tree_sitter", "regex"}}
    /\ pc = "parse"
    /\ cursor = 1
    /\ pending = {}
    /\ result = NoResult
    /\ previous = NoBuild
    /\ builds = 1
    /\ server = NoServer
    /\ reply = NoReply

\* one turn of the loop over py_files: _parse_file(py_file); after the last
\* file build goes on to _resolve_dependencies
ParseFile ==
    /\ pc = "parse"
    /\ cursor <= Len(project)
    /\ self' = ParseFileOrSkip(self, project[cursor])
    /\ IF cursor < Len(project)
       THEN cursor' = cursor + 1 /\ pc' = pc
       ELSE cursor' = 0 /\ pc' = "imports"
    /\ UNCHANGED <<project, pending, result, previous, builds, server, reply>>

\* the dict the loop of a pass runs over: its keys in order and its sets
LoopKeys(b, pass) == IF pass = "imports" THEN b.fileKeys ELSE b.callKeys

LoopItems(b, pass, key) ==
    CASE pass = "imports" -> b.imports[key]
      [] pass = "calls"   -> b.symbol_calls[key]
      [] OTHER            -> b.symbol_instantiates[key]

NextPass(pass) ==
    CASE pass = "imports" -> "calls"
      [] pass = "calls"   -> "inst"
      [] OTHER            -> "refs"

\* the outer loop of a pass: on to the next key and its set, or, past the
\* last key, on to the next pass
NextKey ==
    /\ pc \in {"imports", "calls", "inst"}
    /\ pending = {}
    /\ IF cursor < Len(LoopKeys(self, pc))
       THEN /\ cursor' = cursor + 1
            /\ pending' = LoopItems(self, pc, LoopKeys(self, pc)[cursor + 1])
            /\ pc' = pc
       ELSE /\ cursor' = 0
            /\ pending' = {}
            /\ pc' = NextPass(pc)
    /\ UNCHANGED <<project, self, result, previous, builds, server, reply>>

\* one turn of the inner import loop; a set is iterated in any order
ResolveImport ==
    /\ pc = "imports"
    /\ \E imp_file \in pending :
         /\ self' = ResolveImportOf(self, self.fileKeys[cursor], imp_file)
         /\ pending' = pending \ {imp_file}
    /\ UNCHANGED <<project, pc, cursor, result, previous, builds, server, reply>>

\* one turn of the inner call loop
ResolveCall ==
    /\ pc = "calls"
    /\ \E call \in pending :
         /\ self' = ResolveCallOf(self, self.callKeys[cursor], call)
         /\ pending' = pending \ {call}
    /\ UNCHANGED <<project, pc, cursor, result, previous, builds, server, reply>>

\* one turn of the inner instantiation loop
ResolveInstantiation ==
    /\ pc = "inst"
    /\ \E class_call \in pending :
         /\ self' = ResolveInstantiationOf(self, self.callKeys[cursor], class_call)
         /\ pending' = pending \ {class_call}
    /\ UNCHANGED <<project, pc, cursor, result, previous, builds, server, reply>>

\* the reference sweep, after which build returns
ReferenceSweep ==
    /\ pc = "refs"
    /\ self' = SweepReferences(self, project)
    /\ pc' = "done"
    /\ UNCHANGED <<project, cursor, pending, result, previous, builds, server, reply>>

\* query_blast_radius(symbol) entering the queried name into the graph.
QueryBlastRadiusAddingNode ==
    /\ pc = "done"
    /\ \E symbol \in QueryNames :
         /\ result' = QueryResult(self, symbol)
         /\ self' = [self EXCEPT !.graph = AddNode(@, symbol)]
    /\ UNCHANGED <<project, pc, cursor, pending, previous, builds, server, reply>>

\* query_blast_radius(symbol) on the built graph
QueryBlastRadius ==
    /\ pc = "done"
    /\ \E symbol \in QueryNames : result' = QueryResult(self, symbol)
    /\ UNCHANGED <<project, self, pc, cursor, pending, previous, builds, server, reply>>

\* get_symbol_code(symbol) on the built graph
GetSymbolCode ==
    /\ pc = "done"
    /\ \E symbol \in QueryNames : result' = GetSymbolCodeOf(self, symbol)
    /\ UNCHANGED <<project, self, pc, cursor, pending, previous, builds, server, reply>>

Next ==
    \/ ParseFile
    \/ NextKey
    \/ ResolveImport
    \/ ResolveCall
    \/ ResolveInstantiation
    \/ ReferenceSweep
    \/ QueryBlastRadius
    \/ GetSymbolCode

Spec == Init /\ [][Next]_vars

-----------------------------------------------------------------------------
(* build() more than once *)

\* The number of build() calls followed.
MaxBuilds == 2

\* proj without its i-th file
RemoveFile(proj, i) == SubSeq(proj, 1, i - 1) \o SubSeq(proj, i + 1, Len(proj))

\* The project at the next build(): as it is, or with one of its files
\* deleted since.
Edits(proj) ==
    {proj} \cup {RemoveFile(proj, i) : i \in {j \in 1..Len(proj) : Len(proj) > 1}}

\* build() running its steps: the file loop and _resolve_dependencies
BuildStep ==
    \/ ParseFile
    \/ NextKey
    \/ ResolveImport
    \/ ResolveCall
    \/ ResolveInstantiation
    \/ ReferenceSweep

\* build() called again on the same GraphBuilder: nothing of the object is
\* reset, the file loop starts over the files now under project_root
BuildAgain ==
    /\ pc = "done"
    /\ builds < MaxBuilds
    /\ \E proj \in Edits(project) : project' = proj
    /\ previous' = [project |-> project, self |-> self]
    /\ builds' = builds + 1
    /\ pc' = "parse"
    /\ cursor' = 1
    /\ pending' = {}
    /\ result' = NoResult
    /\ UNCHANGED <<self, server, reply>>

NextRebuild == BuildStep \/ BuildAgain

SpecRebuild == Init /\ [][NextRebuild]_vars

\* build() on a new GraphBuilder over the unchanged project, as a second
\* run of the program does
BuildAfresh ==
    /\ pc = "done"
    /\ builds < MaxBuilds
    /\ self' = NewBuilder(self.parser)
    /\ previous' = [project |-> project, self |-> self]
    /\ builds' = builds + 1
    /\ pc' = "parse"
    /\ cursor' = 1
    /\ pending' = {}
    /\ result' = NoResult
    /\ UNCHANGED <<project, server, reply>>

NextAfresh == BuildStep \/ BuildAfresh

SpecAfresh == Init /\ [][NextAfresh]_vars

-----------------------------------------------------------------------------
(* Properties *)

Built == pc = "done"

Resolving == pc \in {"imports", "calls", "inst", "refs"}

Rel == self.graph.rel

NodeSet == Range(self.graph.nodes)

\* the relation tags the graph holds on the ordered pair (u, v)
RelationsOn(u, v) == IF <<u, v>> \in DOMAIN Rel THEN {Rel[<<u, v>>]} ELSE {}

\* the symbol table records of a kind
Symbols == DOMAIN self.symbol_locations

\* file imports imp_file and imp_file is a parsed file
ImportsFile(file, imp_file) ==
    /\ file \in DOMAIN self.imports
    /\ imp_file \in self.imports[file]
    /\ imp_file \in DOMAIN self.file_symbols

\* the import cross-product rule applies to (u, v)
UsesRuleApplies(u, v) ==
    \E file \in DOMAIN self.imports : \E imp_file \in self.imports[file] :
        /\ ImportsFile(file, imp_file)
        /\ u \in Range(self.file_symbols[file])
        /\ v \in Range(self.file_symbols[imp_file])

\* the exact-name call rule applies to (u, v)
ExactCallRuleApplies(u, v) ==
    /\ u \in DOMAIN self.symbol_calls
    /\ v \in self.symbol_calls[u]
    /\ v \in Symbols

\* C1: once a pair carries a relation tag, no later step of dependency
\* resolution changes that tag.
C1_ResolutionNeverReclassifies ==
    [][Resolving =>
        \A p \in DOMAIN self.graph.rel :
            p \in DOMAIN self'.graph.rel => self'.graph.rel[p] = self.graph.rel[p]]_vars

\* C2: when the import cross-product rule and the exact-name call rule both
\* apply to (u, v), the finished graph holds a uses edge and a calls edge
\* from u to v.
C2_BothRelationsKept ==
    Built =>
        \A u \in Symbols : \A v \in Symbols :
            (UsesRuleApplies(u, v) /\ ExactCallRuleApplies(u, v))
                => {"uses", "calls"} \subseteq RelationsOn(u, v)

\* file a holds `from b import helper`, file b defines function helper, and
\* method `method` of file a calls helper by its bare name
ImportedHelperCalled(a, b, method, helper) ==
    /\ ImportsFile(a, b)
    /\ ("import:" \o SubSeq(b, 1, Len(b) - 3) \o "." \o helper) \in self.imports[a]
    /\ helper \in Symbols
    /\ self.symbol_locations[helper].file = b
    /\ self.symbol_locations[helper].type = "function"
    /\ method \in Symbols
    /\ self.symbol_locations[method].file = a
    /\ self.symbol_locations[method].type = "method"
    /\ method \in DOMAIN self.symbol_calls
    /\ helper \in self.symbol_calls[method]

\* C3: with `from b import helper` in a, helper defined in b and method
\* A.foo of a calling helper(), the finished graph has a->b tagged imports
\* and A.foo->helper tagged calls.
C3_ImportedCallTaggedCalls ==
    Built =>
        \A a \in DOMAIN self.file_symbols : \A b \in DOMAIN self.file_symbols \ {a} :
            \A method \in Symbols : \A helper \in Symbols :
                ImportedHelperCalled(a, b, method, helper)
                    => /\ RelationsOn(a, b) = {"imports"}
                       /\ RelationsOn(method, helper) = {"calls"}

\* function or method f holds a call whose callee's last segment names
\* class C
Constructs(f, C) ==
    /\ f \in DOMAIN self.symbol_calls
    /\ f \in Symbols
    /\ self.symbol_locations[f].type \in {"function", "method"}
    /\ C \in Symbols
    /\ self.symbol_locations[C].type = "class"
    /\ \E call \in self.symbol_calls[f] :
          LastPart(call) = C /\ call \in self.symbol_instantiates[f]

\* C4: a function f that constructs class C has the edge f->C tagged
\* instantiates in the finished graph.
C4_ConstructionTaggedInstantiates ==
    Built =>
        \A f \in Symbols : \A C \in Symbols :
            Constructs(f, C) => RelationsOn(f, C) = {"instantiates"}

\* C5: a function f that constructs class C has, for every lifecycle method
\* C.m of the symbol table, the edge f->C.m tagged instantiates_uses, and
\* the query of f lists C.m among instantiated_methods.
C5_LifecycleMethodsLinked ==
    Built =>
        \A f \in Symbols : \A C \in Symbols : \A m \in ImportantMethods :
            (Constructs(f, C) /\ (C \o "." \o m) \in Symbols)
                => /\ RelationsOn(f, C \o "." \o m) = {"instantiates_uses"}
                   /\ (result.kind = "result" /\ result.symbol = f)
                         => (C \o "." \o m) \in result.instantiated_methods

\* the methods the project's classes contain, as <<class, method name>>
MethodsOfProject ==
    UNION { { <<ParentClass(project[i].lines, j), project[i].lines[j].name>> :
              j \in {x \in 1..Len(project[i].lines) :
                        /\ project[i].lines[x].k = "def"
                        /\ ParentClass(project[i].lines, x) # ""} } :
            i \in 1..Len(project) }

\* C6: for every class C that contains a method m, the finished graph has
\* C->C.m tagged contains, and the query of C lists C.m among dependencies.
C6_ClassContainsItsMethods ==
    Built =>
        \A cm \in MethodsOfProject :
            /\ RelationsOn(cm[1], cm[1] \o "." \o cm[2]) = {"contains"}
            /\ (result.kind = "result" /\ result.symbol = cm[1])
                  => (cm[1] \o "." \o cm[2]) \in result.dependencies

\* there is an edge from u to v
Edge(u, v) == <<u, v>> \in DOMAIN Rel

\* C7: dependents holds exactly the nodes one or two edges behind the
\* resolved symbol; a node only three or more edges behind is left out.
C7_DependentsAreOneAndTwoHops ==
    result.kind = "result" =>
        /\ result.dependents \subseteq NodeSet
        /\ \A n \in NodeSet :
              n \in result.dependents <=>
                 \/ Edge(n, result.symbol)
                 \/ \E mid \in NodeSet : Edge(n, mid) /\ Edge(mid, result.symbol)

\* a query whose symbol has a node two edges behind it that is listed and a
\* node three edges behind it that is not
C7_Witness ==
    /\ result.kind = "result"
    /\ \E n1 \in NodeSet : \E n2 \in NodeSet : \E n3 \in NodeSet :
          /\ Edge(n3, n2) /\ Edge(n2, n1) /\ Edge(n1, result.symbol)
          /\ ~Edge(n2, result.symbol)
          /\ n2 \in result.dependents
          /\ n3 \notin result.dependents

\* C8: dependencies holds the direct successors not reached by an
\* instantiates_uses edge and the successors of every direct successor;
\* instantiated_methods holds the instantiates_uses successors and the
\* contains-successors of the instantiates successors.
C8_SuccessorsClassified ==
    result.kind = "result" =>
        LET s == result.symbol
            direct == {v \in NodeSet : Edge(s, v)}
        IN  /\ result.dependencies =
                  {v \in direct : Rel[<<s, v>>] # "instantiates_uses"}
                  \cup {w \in NodeSet : \E v \in direct : Edge(v, w)}
            /\ result.instantiated_methods =
                  {v \in direct : Rel[<<s, v>>] = "instantiates_uses"}
                  \cup {w \in NodeSet : \E v \in direct :
                           /\ Rel[<<s, v>>] = "instantiates"
                           /\ Edge(v, w)
                           /\ Rel[<<v, w>>] = "contains"}

\* a query whose symbol has an instantiates successor with a contained
\* method and with a successor that is not contained
C8_Witness ==
    /\ result.kind = "result"
    /\ \E v \in NodeSet : \E w \in NodeSet : \E x \in NodeSet :
          /\ RelationsOn(result.symbol, v) = {"instantiates"}
          /\ RelationsOn(v, w) = {"contains"}
          /\ w \in result.instantiated_methods
          /\ Edge(v, x) /\ RelationsOn(v, x) # {"contains"}
          /\ x \in result.dependencies
          /\ x \notin result.instantiated_methods

\* two characters that differ at most in case
SameLetter(c, d) ==
    \/ c = d
    \/ c \in UpperChars /\ LowerOf[c] = d
    \/ d \in UpperChars /\ LowerOf[d] = c

\* name holds query as a substring, case ignored
HoldsIgnoringCase(name, query) ==
    \E off \in 0..(Len(name) - Len(query)) :
        \A k \in 1..Len(query) : SameLetter(Ch(name, off + k), Ch(query, k))

\* C9: the query ends in the error exactly when the name is no node and no
\* node name holds it as a case-insensitive substring; the error suggests at
\* most 5 names, each a node.
C9_ErrorOnlyWithoutMatch ==
    result.kind \in {"result", "error"} =>
        /\ result.kind = "error" <=>
              /\ result.query \notin NodeSet
              /\ \A n \in NodeSet : ~HoldsIgnoringCase(n, result.query)
        /\ result.kind = "error" =>
              /\ Len(result.suggestions) <= 5
              /\ Range(result.suggestions) \subseteq NodeSet

\* an error on a graph of more than five nodes, with five suggestions
C9_Witness ==
    /\ result.kind = "error"
    /\ Len(self.graph.nodes) > 5
    /\ Len(result.suggestions) = 5

\* C10: a queried name that is a node resolves to itself; any other name
\* resolves to the earliest-inserted node that holds it, case ignored.
C10_ExactThenEarliestMatch ==
    result.kind = "result" =>
        IF result.query \in NodeSet
        THEN result.symbol = result.query
        ELSE \E i \in 1..Len(self.graph.nodes) :
                /\ self.graph.nodes[i] = result.symbol
                /\ HoldsIgnoringCase(self.graph.nodes[i], result.query)
                /\ \A j \in 1..(i - 1) :
                      ~HoldsIgnoringCase(self.graph.nodes[j], result.query)

\* a query of a node name that an earlier node holds as a substring
C10_Witness ==
    /\ result.kind = "result"
    /\ result.query \in NodeSet
    /\ result.symbol = result.query
    /\ \E i \in 1..Len(self.graph.nodes) : \E j \in 1..(i - 1) :
          /\ self.graph.nodes[i] = result.query
          /\ HoldsIgnoringCase(self.graph.nodes[j], result.query)

-----------------------------------------------------------------------------
(* The build and the order in which sets are iterated *)

\* a build before this one has returned
BuiltBefore == previous # NoBuild

\* C11: two builds of the same unchanged project, each on a GraphBuilder of
\* its own and over the files in the same order, end with the same node set
\* and the same relation tag on every edge, whatever the order in which the
\* callee sets, the instantiation sets and the import sets were iterated.
C11_SameGraphOnEveryRun ==
    (Built /\ BuiltBefore) =>
        /\ NodeSet = Range(previous.self.graph.nodes)
        /\ Rel = previous.self.graph.rel

-----------------------------------------------------------------------------
(* Call resolution *)

\* the callee expression is the qualified name of the symbol (rule 1)
MatchesExactly(call, sym) == call = sym /\ sym \in Symbols

\* the callee expression has two segments and the symbol is, or ends with a
\* dot and, its last segment (rule 2)
MatchesLastSegment(call, sym) ==
    /\ sym \in Symbols
    /\ NumParts(call) = 2
    /\ sym = LastPart(call) \/ EndsWith(sym, "." \o LastPart(call))

\* the call-resolution pass has just ended
CallsResolved == pc = "inst"

\* C12: when the call-resolution pass ends, every symbol that a callee
\* expression of a caller matched by rule 1 or by rule 2 has the edge from
\* the caller tagged `calls`, whatever else matched the symbol or linked the
\* two before.
C12_PreciseMatchTaggedCalls ==
    CallsResolved =>
        \A caller \in DOMAIN self.symbol_calls :
            \A call \in self.symbol_calls[caller] :
                \A sym \in Symbols :
                    (MatchesExactly(call, sym) \/ MatchesLastSegment(call, sym))
                        => RelationsOn(caller, sym) = {"calls"}

-----------------------------------------------------------------------------
(* The reference sweep *)

\* name occurs in text, letter for letter
Occurs(name, text) ==
    \E off \in 0..(Len(text) - Len(name)) :
        \A k \in 1..Len(name) : Ch(text, off + k) = Ch(name, k)

\* the i-th file of the project is parsed, is not the file that owns symbol
\* t, and its text holds the base name of t
MentionsFromOutside(i, t) ==
    /\ project[i].path \in DOMAIN self.file_symbols
    /\ project[i].path # self.symbol_locations[t].file
    /\ Occurs(LastPart(t), ReadText(project[i]))

\* C13: in the finished graph, for every symbol t and every parsed file
\* other than the file owning t whose text holds the base name of t, every
\* symbol s # t defined in that file has the edge s -> t tagged `references`.
C13_SweepTagsReferences ==
    Built =>
        \A t \in Symbols :
            \A i \in 1..Len(project) :
                MentionsFromOutside(i, t) =>
                    \A s \in Range(self.file_symbols[project[i].path]) \ {t} :
                        RelationsOn(s, t) = {"references"}

\* a finished graph where the sweep tagged a pair that call resolution had
\* matched exactly and the import pass had linked
C13_Witness ==
    /\ Built
    /\ \E t \in Symbols :
         \E i \in 1..Len(project) :
            /\ MentionsFromOutside(i, t)
            /\ \E s \in Range(self.file_symbols[project[i].path]) \ {t} :
                 /\ s \in DOMAIN self.symbol_calls
                 /\ t \in self.symbol_calls[s]
                 /\ ImportsFile(project[i].path, self.symbol_locations[t].file)
                 /\ RelationsOn(s, t) = {"references"}

-----------------------------------------------------------------------------
(* The import pass *)

\* C14: in the finished graph, for every parsed file f whose import set
\* holds the path of another parsed file g, the edge f -> g is tagged
\* `imports` and every symbol of f has an edge tagged `uses` to every symbol
\* of g.
C14_ImportLinksEverySymbol ==
    Built =>
        \A f \in DOMAIN self.imports :
            \A g \in DOMAIN self.file_symbols \ {f} :
                ImportsFile(f, g) =>
                    /\ RelationsOn(f, g) = {"imports"}
                    /\ \A s \in Range(self.file_symbols[f]) :
                          \A t \in Range(self.file_symbols[g]) :
                             RelationsOn(s, t) = {"uses"}

\* the entries the import statements of the i-th file put into its import set
ImportEntriesOf(i) ==
    UNION { {PotentialFile(ln.name)} \cup
            (IF ln.k = "from" /\ self.parser = "tree_sitter"
             THEN {"import:" \o ln.name \o "." \o ln.arg} ELSE {}) :
            ln \in {project[i].lines[j] : j \in
                        {n \in 1..Len(project[i].lines) :
                            project[i].lines[n].k \in {"from", "import"}}} }

\* n is a node of the graph or an endpoint of one of its edges
InGraph(n) == n \in NodeSet \/ \E e \in DOMAIN Rel : e[1] = n \/ e[2] = n

-----------------------------------------------------------------------------
(* The result of query_blast_radius *)

\* the nodes the result names: the resolved symbol and its three sets
NamedNodes ==
    {result.symbol} \cup result.dependents \cup result.dependencies
        \cup result.instantiated_methods

\* C16: affected_files of a result is the set of the files that the symbol
\* table gives as owner of a node among the resolved symbol, its dependents,
\* its dependencies and its instantiated methods; it holds the file of the
\* resolved symbol when that is a symbol.
C16_AffectedFilesAreOwningFiles ==
    result.kind = "result" =>
        /\ \A n \in NamedNodes \cap Symbols :
              self.symbol_locations[n].file \in result.affected_files
        /\ \A file \in result.affected_files :
              \E n \in NamedNodes \cap Symbols : self.symbol_locations[n].file = file
        /\ result.symbol \in Symbols =>
              self.symbol_locations[result.symbol].file \in result.affected_files

\* a result for a symbol whose dependents or dependencies reach into a file
\* other than its own
C16_Witness ==
    /\ result.kind = "result"
    /\ result.symbol \in Symbols
    /\ self.symbol_locations[result.symbol].file \in result.affected_files
    /\ \E n \in NamedNodes \cap Symbols :
         self.symbol_locations[n].file # self.symbol_locations[result.symbol].file
    /\ Cardinality(result.affected_files) = 2

\* C17: blast_radius_size is the sum of the sizes of dependents, dependencies
\* and instantiated_methods of the same result, a node counting once for
\* every set it is in; it is 0 when the resolved symbol has no predecessor
\* and no successor.
C17_SizeIsSumOfTheThreeSets ==
    result.kind = "result" =>
        /\ result.blast_radius_size =
              Cardinality(result.dependents) + Cardinality(result.dependencies)
                  + Cardinality(result.instantiated_methods)
        /\ (\A n \in NodeSet : RelationsOn(n, result.symbol) = {}
                                 /\ RelationsOn(result.symbol, n) = {})
              => result.blast_radius_size = 0

\* a result with a node that is both a dependent and an instantiated method,
\* counted twice
C17_Witness ==
    /\ result.kind = "result"
    /\ result.dependents \cap result.instantiated_methods # {}
    /\ result.blast_radius_size >
          Cardinality(result.dependents \cup result.dependencies
                          \cup result.instantiated_methods)

-----------------------------------------------------------------------------
(* Queries and the builder *)

\* C18: query_blast_radius and get_symbol_code change nothing of the
\* builder: over any sequence of queries after build, whether the names
\* resolve or not, the nodes, the edges and their relation tags, the symbol
\* table, the file index and the import sets stay as build left them.
C18_QueriesAreReadOnly ==
    [][(Built /\ result' # result) =>
          /\ self'.graph = self.graph
          /\ self'.symbol_locations = self.symbol_locations
          /\ self'.file_symbols = self.file_symbols
          /\ self'.imports = self.imports]_vars

\* a query for a name that is no node and matches none has returned, on a
\* graph that has nodes
C18_Witness ==
    /\ Built
    /\ result.kind = "error"
    /\ result.query \notin NodeSet
    /\ NodeSet # {}

-----------------------------------------------------------------------------
(* build() called again on the same GraphBuilder *)

\* the project is as it was at the build before this one
ProjectUnchanged == BuiltBefore /\ previous.project = project

\* C19: a further build() on the same GraphBuilder over the unchanged
\* project ends with the node set, the edges and their relation tags, the
\* symbol table and the file index that the build before it ended with.
C19_BuildIsIdempotent ==
    (Built /\ ProjectUnchanged) =>
        /\ NodeSet = Range(previous.self.graph.nodes)
        /\ Rel = previous.self.graph.rel
        /\ self.symbol_locations = previous.self.symbol_locations
        /\ self.file_symbols = previous.self.file_symbols

\* a second build over an unchanged project of two files has returned, with
\* a graph that holds edges of the parse, of guarded rules and of the sweep
C19_Witness ==
    /\ Built
    /\ ProjectUnchanged
    /\ Len(project) = 2
    /\ \E e \in DOMAIN Rel : Rel[e] = "contains"
    /\ \E e \in DOMAIN Rel : Rel[e] \in {"uses", "may_call", "instantiates_uses"}
    /\ \E e \in DOMAIN Rel : Rel[e] = "references"

\* C20: a build leaves nothing of an earlier build behind: when build()
\* returns, the files of the file index are the files of the project, every
\* symbol of the symbol table is owned by one of them, and every node is one
\* of these files or symbols.
C20_BuildStartsFromScratch ==
    Built =>
        /\ DOMAIN self.file_symbols \subseteq PathsOf(project)
        /\ \A s \in Symbols : self.symbol_locations[s].file \in PathsOf(project)
        /\ \A n \in NodeSet :
              \/ n \in PathsOf(project)
              \/ n \in Symbols /\ self.symbol_locations[n].file \in PathsOf(project)

-----------------------------------------------------------------------------
(* Files that cannot be read *)

\* the project without the files that cannot be read
ReadableFiles == SelectSeq(project, Readable)

\* what the file loop records for the project without those files
ParsedWithoutUnreadable == ParseAll(NewBuilder(self.parser), ReadableFiles, 1)

\* C21: when a file cannot be read or decoded, build still returns and
\* nothing of the file is recorded: it has no file-index key and no import
\* set, owns no symbol-table record, is no node and no end of an edge, every
\* node is a recorded symbol or a parsed file, and the symbol table, file
\* index, import sets and call sets are those of the project without it.
C21_UnreadableFileLeavesNoTrace ==
    Built =>
        /\ \A i \in {j \in 1..Len(project) : ~Readable(project[j])} :
              /\ project[i].path \notin DOMAIN self.file_symbols
              /\ project[i].path \notin DOMAIN self.imports
              /\ \A s \in Symbols : self.symbol_locations[s].file # project[i].path
              /\ ~InGraph(project[i].path)
        /\ NodeSet \subseteq Symbols \cup DOMAIN self.file_symbols
        /\ ReadableFiles # project =>
              LET without == ParsedWithoutUnreadable
              IN  /\ self.symbol_locations = without.symbol_locations
                  /\ self.file_symbols = without.file_symbols
                  /\ self.imports = without.imports
                  /\ self.symbol_calls = without.symbol_calls

\* build has returned on a project whose first file imports the second and
\* defines symbols, and whose second file cannot be read
C21_Witness ==
    /\ Built
    /\ Len(project) = 2
    /\ ~Readable(project[2])
    /\ project[1].path \in DOMAIN self.imports
    /\ project[2].path \in self.imports[project[1].path]
    /\ Symbols # {}

-----------------------------------------------------------------------------
(* Definitions of one qualified name *)

\* the places <<i, j>> of the definitions in the files that can be read:
\* line j of the i-th file is a class or function header
Definitions ==
    UNION { {<<i, j>> : j \in {x \in 1..Len(project[i].lines) :
                                  project[i].lines[x].k \in {"class", "def"}}} :
            i \in {y \in 1..Len(project) : Readable(project[y])} }

\* the header line of the class a method header at d belongs to
ClassHeaderOf(d) ==
    LET lines == project[d[1]].lines
    IN  Max({j \in 1..(d[2] - 1) : lines[j].k = "class"})

\* the qualified name of the definition at d
QualifiedNameAt(d) ==
    LET lines == project[d[1]].lines
        ln == lines[d[2]]
    IN  IF ln.k = "def" /\ ln.ind > 0
        THEN lines[ClassHeaderOf(d)].name \o "." \o ln.name
        ELSE ln.name

\* the kind of the definition at d
KindAt(d) ==
    LET ln == project[d[1]].lines[d[2]]
    IN  IF ln.k = "class" THEN "class"
        ELSE IF ln.ind > 0 THEN "method" ELSE "function"

\* d is parsed before e
ParsedBefore(d, e) == d[1] < e[1] \/ (d[1] = e[1] /\ d[2] < e[2])

\* the name at d is defined again later
DefinedAgain(d) ==
    \E e \in Definitions : ParsedBefore(d, e) /\ QualifiedNameAt(e) = QualifiedNameAt(d)

\* C22: when a qualified name is defined more than once, after build the
\* symbol table holds for it the record of the definition parsed last, the
\* graph holds one node of that name, and the edge that the parse of an
\* earlier definition attached to the node (from the class of a method) is
\* still there.
C22_LastDefinitionWins ==
    Built =>
        \A d \in Definitions :
            LET n == QualifiedNameAt(d)
            IN  /\ n \in Symbols
                /\ Cardinality({k \in 1..Len(self.graph.nodes) :
                                   self.graph.nodes[k] = n}) = 1
                /\ ~DefinedAgain(d) =>
                      /\ self.symbol_locations[n].file = project[d[1]].path
                      /\ self.symbol_locations[n].line = d[2]
                      /\ self.symbol_locations[n].type = KindAt(d)
                /\ (DefinedAgain(d) /\ KindAt(d) = "method"
                        /\ self.parser = "tree_sitter") =>
                      <<project[d[1]].lines[ClassHeaderOf(d)].name, n>> \in DOMAIN Rel

\* a finished graph of the syntax-tree parser where a method is defined in
\* both files and a function is redefined as a class
C22_Witness ==
    /\ Built
    /\ self.parser = "tree_sitter"
    /\ \E d \in Definitions :
         /\ DefinedAgain(d)
         /\ KindAt(d) = "method"
         /\ self.symbol_locations[QualifiedNameAt(d)].file # project[d[1]].path
    /\ \E d \in Definitions :
         /\ DefinedAgain(d)
         /\ KindAt(d) = "function"
         /\ self.symbol_locations[QualifiedNameAt(d)].type = "class"

\* C23: after build every symbol-table record names the file whose parse
\* produced it and has an end line, which is not less than its start line,
\* under the syntax-tree parser and under the fallback parser.
C23_RecordHasFileAndEndLine ==
    Built =>
        \A d \in {e \in Definitions : ~DefinedAgain(e)} :
            LET info == self.symbol_locations[QualifiedNameAt(d)]
            IN  /\ info.file = project[d[1]].path
                /\ "end_line" \in DOMAIN info
                /\ info.end_line >= info.line

-----------------------------------------------------------------------------
(* The edges of the finished graph *)

RelationTags ==
    {"contains", "imports", "uses", "calls", "may_call", "instantiates",
     "instantiates_uses", "references"}

\* the nodes that stand for files, and the nodes that stand for symbols
FileNodes == NodeSet \cap DOMAIN self.file_symbols
SymbolNodes == NodeSet \cap Symbols

-----------------------------------------------------------------------------
(* The two parsers *)

\* the file loop has just ended
Parsed == pc = "imports" /\ cursor = 0 /\ pending = {}

\* what the file loop gives under the parser that did not run
ParsedByOther ==
    ParseAll(NewBuilder(IF self.parser = "regex" THEN "tree_sitter" ELSE "regex"),
             project, 1)

ContainsPairs(g) == {e \in DOMAIN g.rel : g.rel[e] = "contains"}

\* C25: for the same conventionally formatted files the fallback parser and
\* the syntax-tree parser record the same symbols, each with the fields
\* file, line, end_line, code and type, the same `contains` edges from each
\* class to its methods, and the same call and instantiation sets for each
\* function.
C25_ParsersInterchangeable ==
    Parsed =>
        /\ DOMAIN self.symbol_locations = DOMAIN ParsedByOther.symbol_locations
        /\ \A s \in Symbols :
              /\ DOMAIN self.symbol_locations[s] =
                    {"file", "line", "end_line", "code", "type"}
              /\ DOMAIN ParsedByOther.symbol_locations[s] =
                    {"file", "line", "end_line", "code", "type"}
        /\ ContainsPairs(self.graph) = ContainsPairs(ParsedByOther.graph)
        /\ self.symbol_calls = ParsedByOther.symbol_calls
        /\ self.symbol_instantiates = ParsedByOther.symbol_instantiates

-----------------------------------------------------------------------------
(* Resolution and the nodes and edges it finds *)

\* C26: a step of dependency resolution removes no edge and adds and
\* removes no symbol node: the ordered pairs joined by an edge only grow,
\* the symbol table is left alone, no node goes, and a node that comes is a
\* file node at an end of an `imports` edge.
C26_ResolutionOnlyAddsEdges ==
    [][Resolving =>
          /\ DOMAIN Rel \subseteq DOMAIN Rel'
          /\ NodeSet \subseteq NodeSet'
          /\ Symbols' = Symbols
          /\ \A n \in NodeSet' \ NodeSet :
                /\ n \in DOMAIN self.file_symbols
                /\ n \notin Symbols
                /\ \E e \in DOMAIN Rel' :
                      Rel'[e] = "imports" /\ (e[1] = n \/ e[2] = n)]_vars

\* resolution has ended having added file nodes and edges between symbols
C26_Witness ==
    /\ Built
    /\ FileNodes # {}
    /\ \E e \in DOMAIN Rel : Rel[e] \in {"uses", "calls", "may_call", "references"}

-----------------------------------------------------------------------------
(* The file index and the symbol table *)

\* C27: after build every name listed in file_symbols[f] is in the symbol
\* table with f as its file, so that a symbol is listed under one file only.
C27_FileIndexAgreesWithSymbolTable ==
    Built =>
        \A f \in DOMAIN self.file_symbols :
            \A n \in Range(self.file_symbols[f]) :
                n \in Symbols /\ self.symbol_locations[n].file = f

-----------------------------------------------------------------------------
(* The symbol and its own result *)

\* C28: the symbol a query resolves to is in none of the dependents, the
\* dependencies and the instantiated methods of the result.
C28_SymbolNotInOwnResult ==
    result.kind = "result" =>
        result.symbol \notin result.dependents \cup result.dependencies
                                \cup result.instantiated_methods

-----------------------------------------------------------------------------
(* mcp_server.py: the globals and the tools *)

ListLimit == 20
MatchLimit == 30
CodeListLimit == 5

\* the names and paths the tools are called with
ToolNames == {"K", "g", "zz"}
ToolPaths == {"a.py", "b", "zz"}

\* if not _graph, with _rules in the place of _graph.
GraphOrRulesMissing(srv) == srv.graph = "None" \/ srv.rules = "None"

\* if not _graph
GraphMissing(srv) == srv.graph = "None"

NotInitialised(tool) == [tool |-> tool, error |-> "Call init_project first"]

\* list[:n + 1]
TakeOneMore(list, n) ==
    SubSeq(list, 1, IF Len(list) < n + 1 THEN Len(list) ELSE n + 1)

\* list[:n]
Take(list, n) == SubSeq(list, 1, IF Len(list) < n THEN Len(list) ELSE n)

\* d.get(k), "None" for None
Get(d, k) == IF k \in DOMAIN d THEN d[k] ELSE "None"

\* list(s) for a set of nodes or of files: the model lists it in the order
\* of the sequence it is taken from
ListOf(order, set) == SelectSeq(order, LAMBDA n : n \in set)

\* the keys of symbol_locations in dict order: the order of first definition
SymbolOrder(b) == ListOf(b.graph.nodes, DOMAIN b.symbol_locations)

\* the dict GraphBuilder.query_blast_radius returns, its sets made lists
CoreAsDict(b, core) ==
    IF core.kind = "error" THEN core
    ELSE [core EXCEPT
            !.dependents = ListOf(b.graph.nodes, @),
            !.dependencies = ListOf(b.graph.nodes, @),
            !.instantiated_methods = ListOf(b.graph.nodes, @),
            !.affected_files = ListOf(b.fileKeys, @)]

\* query_blast_radius (tool), from the core result on
McpBlastRadius(core) ==
    IF core.kind = "error"
    THEN [tool |-> "query_blast_radius",
          error |-> "Symbol '" \o core.query \o "' not found",
          suggestions |-> core.suggestions]
    ELSE [tool              |-> "query_blast_radius",
          error             |-> "none",
          symbol            |-> core.symbol,
          file              |-> Get(core.symbol_info, "file"),
          line              |-> Get(core.symbol_info, "line"),
          type              |-> Get(core.symbol_info, "type"),
          blast_radius_size |-> core.blast_radius_size,
          affected_files    |-> core.affected_files,
          dependents        |-> Take(core.dependents, ListLimit),
          dependencies      |-> Take(core.dependencies, ListLimit)]

\* matches of find_symbols and of the partial match of get_symbol_code
SymbolMatches(b, query, symbol_type) ==
    SelectSeq(SymbolOrder(b),
              LAMBDA sym : /\ Contains(Lower(sym), Lower(query))
                           /\ \/ symbol_type = "all"
                              \/ b.symbol_locations[sym].type = symbol_type)

\* find_symbols
FindSymbols(b, query, symbol_type) ==
    LET matches == SymbolMatches(b, query, symbol_type)
    IN  [tool |-> "find_symbols", error |-> "none", query |-> query,
         matches |-> Take(matches, MatchLimit), total |-> Len(matches)]

\* get_symbol_code (tool)
McpSymbolCode(b, symbol) ==
    LET matches == SymbolMatches(b, symbol, "all")
        found == IF symbol \in DOMAIN b.symbol_locations THEN symbol
                 ELSE IF matches # <<>> THEN matches[1] ELSE ""
    IN  IF found = ""
        THEN [tool |-> "get_symbol_code",
              error |-> "Symbol '" \o symbol \o "' not found"]
        ELSE [tool |-> "get_symbol_code", error |-> "none", symbol |-> found,
              file |-> b.symbol_locations[found].file,
              line |-> b.symbol_locations[found].line,
              type |-> b.symbol_locations[found].type,
              code |-> b.symbol_locations[found].code]

\* get_file_symbols
FileSymbols(b, file_path) ==
    LET partial == SelectSeq(b.fileKeys, LAMBDA fp : Contains(fp, file_path))
        exact == IF file_path \in DOMAIN b.file_symbols
                 THEN b.file_symbols[file_path] ELSE <<>>
        fp == IF exact = <<>> /\ partial # <<>> THEN partial[1] ELSE file_path
    IN  [tool |-> "get_file_symbols", error |-> "none", file |-> fp,
         symbols |->
             LET symbols == IF fp \in DOMAIN b.file_symbols
                            THEN b.file_symbols[fp] ELSE <<>>
             IN  [i \in 1..Len(symbols) |->
                    [name |-> symbols[i],
                     type |-> IF symbols[i] \in DOMAIN b.symbol_locations
                              THEN b.symbol_locations[symbols[i]].type ELSE "None",
                     line |-> IF symbols[i] \in DOMAIN b.symbol_locations
                              THEN b.symbol_locations[symbols[i]].line ELSE "None"]]]

\* the names of list whose get_symbol_code is not empty, the first five
WithCode(b, list) ==
    SelectSeq(Take(list, CodeListLimit),
              LAMBDA dep : dep \in DOMAIN b.symbol_locations
                           /\ b.symbol_locations[dep].code # "")

\* the code get_full_context puts in its target: that of symbol, else that of
\* the first symbol whose name holds it, else none
TargetCode(b, symbol) ==
    LET matches == SymbolMatches(b, symbol, "all")
    IN  IF symbol \in DOMAIN b.symbol_locations
        THEN b.symbol_locations[symbol].code
        ELSE IF matches # <<>> THEN b.symbol_locations[matches[1]].code
        ELSE "None"

\* get_full_context with include_code; the rules and tests it attaches are
\* those of RuleMatcher and TestLocator and are left as whether there are any
FullContext(b, srv, symbol) ==
    LET core == CoreAsDict(b, QueryResult(b, symbol))
        blast == McpBlastRadius(core)
    IN  IF core.kind = "error"
        THEN [blast EXCEPT !.tool = "get_full_context"]
        ELSE [tool |-> "get_full_context", error |-> "none",
              target |-> blast,
              code |-> TargetCode(b, symbol),
              dependents_code |-> WithCode(b, blast.dependents),
              dependencies_code |-> WithCode(b, blast.dependencies),
              rules |-> srv.rules # "None",
              tests |-> srv.tests # "None"]

\* analyze_diff, from the set of changed symbols on
AnalyzeDiff(b, changed_symbols) ==
    LET found == {sym \in changed_symbols : QueryResult(b, sym).kind = "result"}
    IN  [tool |-> "analyze_diff", error |-> "none",
         changed_symbols |-> changed_symbols,
         affected_files |-> UNION {QueryResult(b, sym).affected_files : sym \in found},
         total_dependents |->
             Cardinality(UNION {QueryResult(b, sym).dependents : sym \in found}),
         impacts |-> {[symbol |-> sym,
                       blast_radius |-> QueryResult(b, sym).blast_radius_size] :
                      sym \in found}]

\* The number of files of a project the server is started on.
MaxServerFiles == 1

ServerProjects == {proj \in Projects : Len(proj) <= MaxServerFiles}

\* the module is loaded: no GraphBuilder yet, only whether tree-sitter is there
InitServer ==
    /\ project \in ServerProjects
    /\ self \in {[parser |-> which] : which \in {"tree_sitter", "regex"}}
    /\ pc = "idle"
    /\ cursor = 0
    /\ pending = {}
    /\ result = NoResult
    /\ previous = NoBuild
    /\ builds = 0
    /\ server = NoServer
    /\ reply = NoReply

\* no tool is running
Idle == pc \in {"idle", "serving"}

\* init_project up to _graph.build(): the new GraphBuilder is bound to _graph
\* and build() runs its steps before any other tool is served
InitProject ==
    /\ Idle
    /\ builds < MaxBuilds
    /\ self' = NewBuilder(self.parser)
    /\ server' = [server EXCEPT !.graph = "GraphBuilder"]
    /\ builds' = builds + 1
    /\ pc' = "parse"
    /\ cursor' = 1
    /\ pending' = {}
    /\ reply' = NoReply
    /\ UNCHANGED <<project, result, previous>>

\* init_project after build() has returned: _rules, _tests and the reply
InitProjectReturn ==
    /\ pc = "done"
    /\ \E rules \in {"None", "RuleMatcher"} :
         server' = [server EXCEPT !.rules = rules, !.tests = "TestLocator"]
    /\ reply' = [tool |-> "init_project", error |-> "none",
                 status |-> "initialized",
                 symbols_found |-> Cardinality(DOMAIN self.symbol_locations),
                 files_parsed |-> Cardinality(DOMAIN self.file_symbols)]
    /\ pc' = "serving"
    /\ UNCHANGED <<project, self, cursor, pending, result, previous, builds>>

\* what is left alone by a tool other than init_project
ToolLeaves == UNCHANGED <<project, self, pc, cursor, pending, result, previous,
                          builds, server>>

QueryBlastRadiusTool ==
    /\ Idle
    /\ \E symbol \in ToolNames :
         reply' = IF GraphMissing(server)
                  THEN NotInitialised("query_blast_radius")
                  ELSE McpBlastRadius(CoreAsDict(self, QueryResult(self, symbol)))
    /\ ToolLeaves

FindSymbolsTool ==
    /\ Idle
    /\ \E query \in ToolNames, symbol_type \in {"all", "class"} :
         reply' = IF GraphMissing(server)
                  THEN NotInitialised("find_symbols")
                  ELSE FindSymbols(self, query, symbol_type)
    /\ ToolLeaves

GetSymbolCodeTool ==
    /\ Idle
    /\ \E symbol \in ToolNames :
         reply' = IF GraphMissing(server)
                  THEN NotInitialised("get_symbol_code")
                  ELSE McpSymbolCode(self, symbol)
    /\ ToolLeaves

GetFileSymbolsTool ==
    /\ Idle
    /\ \E file_path \in ToolPaths :
         reply' = IF GraphMissing(server)
                  THEN NotInitialised("get_file_symbols")
                  ELSE FileSymbols(self, file_path)
    /\ ToolLeaves

\* get_related_tests: what TestLocator finds is left out of the reply
GetRelatedTestsTool ==
    /\ Idle
    /\ reply' = IF server.tests = "None"
                THEN NotInitialised("get_related_tests")
                ELSE [tool |-> "get_related_tests", error |-> "none"]
    /\ ToolLeaves

\* match_coding_rules: what RuleMatcher matches is left out of the reply
MatchCodingRulesTool ==
    /\ Idle
    /\ reply' = IF server.rules = "None"
                THEN [tool |-> "match_coding_rules", error |-> "none",
                      message |-> "No rules file loaded"]
                ELSE [tool |-> "match_coding_rules", error |-> "none",
                      message |-> "None"]
    /\ ToolLeaves

GetFullContextTool ==
    /\ Idle
    /\ \E symbol \in ToolNames :
         reply' = IF GraphMissing(server)
                  THEN NotInitialised("get_full_context")
                  ELSE FullContext(self, server, symbol)
    /\ ToolLeaves

AnalyzeDiffTool ==
    /\ Idle
    /\ \E changed_symbols \in SUBSET ToolNames :
         reply' = IF GraphMissing(server)
                  THEN NotInitialised("analyze_diff")
                  ELSE AnalyzeDiff(self, changed_symbols)
    /\ ToolLeaves

NextServer ==
    \/ InitProject
    \/ BuildStep
    \/ InitProjectReturn
    \/ QueryBlastRadiusTool
    \/ FindSymbolsTool
    \/ GetSymbolCodeTool
    \/ GetFileSymbolsTool
    \/ GetRelatedTestsTool
    \/ MatchCodingRulesTool
    \/ GetFullContextTool
    \/ AnalyzeDiffTool

SpecServer == InitServer /\ [][NextServer]_vars

-----------------------------------------------------------------------------
(* The tools before and after init_project *)

\* the tools that answer from _graph
GraphTools == {"query_blast_radius", "find_symbols", "get_symbol_code",
               "get_file_symbols", "get_full_context", "analyze_diff"}

\* C29: a graph-backed tool called before any init_project replies the
\* error `Call init_project first` and leaves _graph, _rules and _tests as
\* they were; called after an init_project has returned it never replies
\* that error.
C29_GraphToolsNeedInitProject ==
    [][reply' # reply /\ reply'.tool \in GraphTools =>
          /\ pc = "idle" => /\ reply'.error = "Call init_project first"
                            /\ server' = server
                            /\ server = NoServer
          /\ pc = "serving" => reply'.error # "Call init_project first"]_vars

\* get_full_context has answered after an init_project without a rules file
C29_Witness ==
    /\ pc = "serving"
    /\ server.rules = "None"
    /\ reply.tool = "get_full_context"
    /\ reply.error = "none"

-----------------------------------------------------------------------------
(* query_blast_radius (tool) on results of any length *)

\* The longest list of a core result followed.
MaxListLen == 21

\* The most instantiated methods of a core result followed.
MaxMethods == 2

NodeName(i) == "s" \o ToString(i)

\* the names from NodeName(from + 1) on, n of them
NodeList(from, n) == [i \in 1..n |-> NodeName(from + i)]

\* the dicts GraphBuilder.query_blast_radius returns for a symbol it finds:
\* three lists without repetition and the sum of their lengths; the symbol
\* is one the symbol table holds or one it does not hold
CoreResults ==
    { [kind                 |-> "result",
       query                |-> "s0",
       symbol               |-> "s0",
       symbol_info          |-> info,
       dependents           |-> NodeList(0, d),
       dependencies         |-> NodeList(1, e),
       instantiated_methods |-> NodeList(e + 1, m),
       affected_files       |-> IF d + e + m = 0 /\ info = EmptyDict
                                THEN <<>> ELSE <<"a.py">>,
       blast_radius_size    |-> d + e + m] :
      d \in 0..MaxListLen, e \in 0..MaxListLen, m \in 0..MaxMethods,
      info \in {EmptyDict,
                [file |-> "a.py", line |-> 1, code |-> "def s0(): pass",
                 type |-> "function"]} }

\* and for a symbol it does not find
CoreErrors ==
    { [kind |-> "error", query |-> "zz", suggestions |-> NodeList(0, n)] :
      n \in 0..SuggestionLimit }

\* init_project has returned and _graph.query_blast_radius is about to return
\* result to the tool
InitTool ==
    /\ project \in {proj \in Projects : Len(proj) = 1 /\ proj[1].lines = Undecodable}
    /\ self = NewBuilder("regex")
    /\ pc = "serving"
    /\ cursor = 0
    /\ pending = {}
    /\ result \in CoreResults \cup CoreErrors
    /\ previous = NoBuild
    /\ builds = 1
    /\ server = [graph |-> "GraphBuilder", rules |-> "None", tests |-> "TestLocator"]
    /\ reply = NoReply

\* query_blast_radius (tool) from the return of the core call on
QueryBlastRadiusReturn ==
    /\ Idle
    /\ reply = NoReply
    /\ reply' = IF GraphMissing(server)
                THEN NotInitialised("query_blast_radius")
                ELSE McpBlastRadius(result)
    /\ ToolLeaves

NextTool == QueryBlastRadiusReturn

SpecTool == InitTool /\ [][NextTool]_vars

\* list is the first at most n entries of whole
FirstOf(list, whole, n) ==
    /\ Len(list) = IF Len(whole) < n THEN Len(whole) ELSE n
    /\ \A i \in 1..Len(list) : list[i] = whole[i]

\* the tool has answered for a symbol the graph holds
Answered ==
    /\ reply.tool = "query_blast_radius"
    /\ reply.error = "none"
    /\ result.kind = "result"

\* C30: the reply of the query_blast_radius tool carries as dependents and
\* as dependencies the first at most 20 entries of the core result's lists,
\* carries blast_radius_size and affected_files as the core result has
\* them, and has no instantiated_methods; so its blast_radius_size is at
\* least the lengths of its two lists together.
C30_ReplyTruncatesListsOnly ==
    Answered =>
        /\ FirstOf(reply.dependents, result.dependents, 20)
        /\ FirstOf(reply.dependencies, result.dependencies, 20)
        /\ reply.blast_radius_size = result.blast_radius_size
        /\ reply.affected_files = result.affected_files
        /\ "instantiated_methods" \notin DOMAIN reply
        /\ reply.blast_radius_size >=
              Len(reply.dependents) + Len(reply.dependencies)

\* the tool has answered from a core result with more than 20 dependents,
\* fewer than 20 dependencies and some instantiated methods
C30_Witness ==
    /\ Answered
    /\ Len(result.dependents) > 20
    /\ Len(reply.dependents) = 20
    /\ Len(result.dependencies) \in 1..19
    /\ result.instantiated_methods # <<>>
    /\ reply.blast_radius_size >
          Len(reply.dependents) + Len(reply.dependencies)

====
